---- MODULE Spec2Model ----
(***************************************************************************)
(* Model of the ETmbit 'general' extension (general.ts).                   *)
(*                                                                         *)
(* The repository holds two revisions of general.ts:                       *)
(*   src/unnamed/part_000  the revision with the string radio protocol,    *)
(*                         the ETgroupSet flag and the auto-resetting wait *)
(*   src/main.ts           the older revision (GROUP, tm_group, WAITABORT) *)
(* A device runs one of them; the variable build says which.               *)
(*                                                                         *)
(* Scheduling: every handler registered with the platform runs in its own  *)
(* fiber and is not preempted.  A handler is one atomic action up to the   *)
(* point where it blocks (basic.pause in a polling loop, or a call of      *)
(* registered user handlers, which may themselves call General.wait).      *)
(***************************************************************************)
EXTENDS Integers, Sequences, FiniteSets, TLC

\* ------------------------------------------------------------------ bounds

\* the clock stops here
MaxTime == 3000
\* 1 ms clock steps are taken only in the first MaxFine ms of a second
MaxFine == 2
\* history counters saturate here
MaxCount == 3
\* fibers (handlers) that call General.wait
NumWaiters == 2
\* longest text given to sendRadioMessage in the encoder specification
MaxLen == 35
\* sendRadioMessage calls in one run
MaxSends == 2
\* registerMessageHandler is called while the registry is shorter than this
MaxChannels == 2
\* the waits are observed until this time (ms)
MaxWaitTime == 1000
\* strings received from outside the modelled senders in one run
MaxUnits == 2

\* ------------------------------------------------------- program constants

\* part_000:143,147 / main.ts:117,121   control.millis() + 1000
GroupDelay == 1000
\* part_000:136 / main.ts:113           if (ETgroup > 9) ETgroup = 1
MaxGroup == 9
\* part_000:526 / main.ts:425           sec * 1000
MsPerSec == 1000
\* part_000:486-488                     msg.substr(0, 17)
ChunkSize == 17

VARIABLES
    build,          \* "part" (src/unnamed/part_000) or "main" (src/main.ts)
    now,            \* control.millis()
    \* ---- group selection, part_000
    ETgroup,        \* part_000:107
    ETgroupTimer,   \* part_000:108
    ETgroupSet,     \* part_000:109
    \* ---- group selection, main.ts
    GROUP,          \* main.ts:96
    tm_group,       \* main.ts:103
    \* ---- platform state used by both revisions
    radioGroup,     \* the group last given to radio.setGroup
    shown,          \* the number last given to basic.showNumber
    pendingEvents,  \* raised ETeventId / EVENTID events not yet dispatched
    checkPc,        \* the control.onEvent handler: "idle", "wait", "display"
    \* ---- history (observation only)
    hTouched,       \* a logo gesture has been handled since startup
    hSinceCommit,   \* gestures handled since startup / the last finished commit
    hBurstGestures, \* gestures of the current burst (the first one came in Idle)
    hBurstCommits,  \* displayGroup calls of the deferred check in this burst
    hWrapped,       \* some gesture took the group from 9 to 1
    hLastGesture,   \* control.millis() at the most recent logo gesture
    hCommitted,     \* the group the most recent displayGroup() call has shown
    \* ---- cancellation flag and waits
    ETwaitAbort,    \* part_000:45
    WAITABORT,      \* main.ts:40
    waitSt,         \* per fiber, its General.wait call: [pc, tm, wake]
    \* ---- history (observation only)
    hResult,        \* per fiber, how its last wait ended: "none", "elapsed", "aborted"
    hPaused,        \* per fiber, its current/last wait has paused at least once
    hStopSolo,      \* the fiber whose wait was the only one in progress at the last
                    \* stop gesture, no start gesture and no other wait since; else 0
    hStopSet,       \* the fibers whose wait was in progress at the last stop gesture
                    \* and has not run an iteration since; empty after a start gesture
    hEarly,         \* the waits of the auto-reset revision that returned by the
                    \* abort branch since the last stop gesture
    \* ---- General.waitUntil, main.ts
    cond,           \* the condition a program waits for, as it evaluates now
    untilSt,        \* per fiber, its General.waitUntil call: [pc, state, wake]
    hUntil,         \* per fiber, how its last waitUntil ended: "none", "condition",
                    \* "aborted"
    \* ---- radio messages, part_000
    ETradioIds,     \* part_000:97
    ETradioMsgs,    \* part_000:98
    ETradioHandlers,\* part_000:99   (a handler is named by a string)
    ETradioHandler, \* part_000:104  ("none": undefined)
    crashed,        \* the receive handler called an undefined handler
    tx,             \* per sender, its sendRadioMessage call: [busy, msg, idstr]
    air,            \* per sender, the units given to radio.sendString and not
                    \* yet received by the decoding device
    \* ---- history (observation only)
    calls,          \* the callback invocations of the decoder: [hnd, text]
    hSent,          \* the sendRadioMessage calls: [sender, id, text, ready]
    hEmitted,       \* per sender, the units its current/last call has emitted
    hUnit,          \* the unit the decoder received last
    hPending        \* per id, the payloads received since the last terminator

groupVars == <<ETgroup, ETgroupTimer, ETgroupSet, GROUP, tm_group, radioGroup,
               shown, pendingEvents, checkPc,
               hTouched, hSinceCommit, hBurstGestures, hBurstCommits, hWrapped,
               hLastGesture, hCommitted>>

untilVars == <<cond, untilSt, hUntil>>

waitVars == <<ETwaitAbort, WAITABORT, waitSt, hResult, hPaused, hStopSolo,
              hStopSet, hEarly, untilVars>>

radioVars == <<ETradioIds, ETradioMsgs, ETradioHandlers, ETradioHandler, crashed,
               tx, air, calls, hSent, hEmitted, hUnit, hPending>>

vars == <<build, now, groupVars, waitVars, radioVars>>

Builds == {"part", "main"}

Sat(n) == IF n >= MaxCount THEN MaxCount ELSE n + 1

\* ------------------------------------------------------------------- clock

TickSteps == {1, MsPerSec}

\* time passes (control.millis() grows while fibers sleep)
Tick(d) ==
    /\ now + d <= MaxTime
    /\ d = 1 => (now % MsPerSec) < MaxFine
    /\ now' = now + d
    /\ UNCHANGED <<build, groupVars, waitVars, radioVars>>

\* ------------------------------------------------- group selection, part_000

\* part_000:135-136   ETgroup++ ; if (ETgroup > 9) ETgroup = 1
IncGroupNoWrap(g) == g + 1
IncGroup(g) == IF g + 1 > MaxGroup THEN 1 ELSE g + 1

\* part_000:137   radio.setGroup(ETgroup) : the group the radio is in afterwards
SetGroup(old, group) == group

\* part_000:142   if (!ETgroupTimer)
RaiseAlways(timer) == TRUE
TimerIdle(timer) == timer = 0

\* part_000:133-148   input.onLogoEvent(TouchButtonEvent.Pressed, ...)
\* The handler holds no polling loop and calls no registered handler: one step.
LogoPressed ==
    /\ build = "part"
    /\ IF ETgroupSet
         THEN /\ ETgroup' = IncGroup(ETgroup)
              /\ radioGroup' = SetGroup(radioGroup, ETgroup')
              /\ UNCHANGED ETgroupSet
         ELSE /\ ETgroupSet' = TRUE
              /\ UNCHANGED <<ETgroup, radioGroup>>
    /\ shown' = ETgroup'
    /\ ETgroupTimer' = now + GroupDelay
    /\ pendingEvents' = IF TimerIdle(ETgroupTimer) THEN pendingEvents + 1
                                                  ELSE pendingEvents
    /\ hTouched' = TRUE
    /\ hSinceCommit' = Sat(hSinceCommit)
    /\ hBurstGestures' = IF ETgroupTimer = 0 THEN 1 ELSE Sat(hBurstGestures)
    /\ hBurstCommits' = IF ETgroupTimer = 0 THEN 0 ELSE hBurstCommits
    /\ hWrapped' = (hWrapped \/ (ETgroup = MaxGroup /\ ETgroup' = 1))
    /\ hLastGesture' = now
    /\ UNCHANGED hCommitted
    /\ UNCHANGED <<build, now, GROUP, tm_group, checkPc,
                   waitVars, radioVars>>

\* part_000:126   the dispatcher starts the control.onEvent handler
CheckStart ==
    /\ build = "part"
    /\ checkPc = "idle"
    /\ pendingEvents > 0
    /\ pendingEvents' = pendingEvents - 1
    /\ checkPc' = "wait"
    /\ UNCHANGED <<build, now, ETgroup, ETgroupTimer, ETgroupSet, GROUP, tm_group,
                   radioGroup, shown, hTouched, hSinceCommit, hBurstGestures,
                   hBurstCommits, hWrapped, hLastGesture, hCommitted,
                   waitVars, radioVars>>

\* part_000:127   while (ETgroupTimer > control.millis()) { basic.pause(1) }
DeadlineAlwaysPassed(timer, t) == TRUE
DeadlinePassed(timer, t) == ~(timer > t)

\* part_000:127-128, 120-123   the loop ends and displayGroup() is entered:
\* basic.showNumber(ETgroup), then the registered display and logo handlers
CheckDisplay ==
    /\ build = "part"
    /\ checkPc = "wait"
    /\ DeadlinePassed(ETgroupTimer, now)
    /\ shown' = ETgroup
    /\ checkPc' = "display"
    /\ hCommitted' = ETgroup
    /\ hBurstCommits' = hBurstCommits + 1
    /\ UNCHANGED <<build, now, ETgroup, ETgroupTimer, ETgroupSet, GROUP, tm_group,
                   radioGroup, pendingEvents, hTouched, hSinceCommit, hBurstGestures,
                   hWrapped, hLastGesture,
                   waitVars, radioVars>>

\* part_000:129-130   displayGroup() has returned
CheckFinishKeepSet ==
    /\ build = "part"
    /\ checkPc = "display"
    /\ ETgroupTimer' = 0
    /\ checkPc' = "idle"
    /\ hSinceCommit' = 0
    /\ UNCHANGED <<build, now, ETgroup, ETgroupSet, GROUP, tm_group, radioGroup, shown,
                   pendingEvents, hTouched, hBurstGestures, hBurstCommits, hWrapped, hLastGesture, hCommitted,
                   waitVars, radioVars>>

CheckFinish ==
    /\ build = "part"
    /\ checkPc = "display"
    /\ ETgroupTimer' = 0
    /\ ETgroupSet' = FALSE
    /\ checkPc' = "idle"
    /\ hSinceCommit' = 0
    /\ UNCHANGED <<build, now, ETgroup, GROUP, tm_group, radioGroup, shown,
                   pendingEvents, hTouched, hBurstGestures, hBurstCommits, hWrapped, hLastGesture, hCommitted,
                   waitVars, radioVars>>

\* --------------------------------------------------- group selection, main.ts

\* main.ts:112-113   GROUP++ ; if (GROUP > 9) GROUP = 1
MainIncGroup(g) == IF g + 1 > MaxGroup THEN 1 ELSE g + 1

\* main.ts:111-122   input.onLogoEvent(TouchButtonEvent.Pressed, ...)
MainLogoPressed ==
    /\ build = "main"
    /\ GROUP' = MainIncGroup(GROUP)
    /\ radioGroup' = GROUP'
    /\ shown' = GROUP'
    /\ tm_group' = now + GroupDelay
    /\ pendingEvents' = IF tm_group = 0 THEN pendingEvents + 1 ELSE pendingEvents
    /\ hTouched' = TRUE
    /\ hWrapped' = (hWrapped \/ (GROUP = MaxGroup /\ GROUP' = 1))
    /\ hLastGesture' = now
    /\ UNCHANGED hCommitted
    /\ UNCHANGED <<build, now, ETgroup, ETgroupTimer, ETgroupSet, checkPc,
                   hSinceCommit, hBurstGestures, hBurstCommits,
                   waitVars, radioVars>>

\* main.ts:105   the dispatcher starts the control.onEvent handler
MainCheckStart ==
    /\ build = "main"
    /\ checkPc = "idle"
    /\ pendingEvents > 0
    /\ pendingEvents' = pendingEvents - 1
    /\ checkPc' = "wait"
    /\ UNCHANGED <<build, now, ETgroup, ETgroupTimer, ETgroupSet, GROUP, tm_group,
                   radioGroup, shown, hTouched, hSinceCommit, hBurstGestures,
                   hBurstCommits, hWrapped, hLastGesture, hCommitted,
                   waitVars, radioVars>>

\* main.ts:106-107, 129-131   the loop ends, displayGroup(): showNumber, pause(500)
MainCheckDisplay ==
    /\ build = "main"
    /\ checkPc = "wait"
    /\ ~(tm_group > now)
    /\ shown' = GROUP
    /\ checkPc' = "display"
    /\ hCommitted' = GROUP
    /\ UNCHANGED <<build, now, ETgroup, ETgroupTimer, ETgroupSet, GROUP, tm_group,
                   radioGroup, pendingEvents, hTouched, hSinceCommit, hBurstGestures, hBurstCommits,
                   hWrapped, hLastGesture,
                   waitVars, radioVars>>

\* main.ts:108, 132-133   displayGroup() has returned ; tm_group = 0
MainCheckFinish ==
    /\ build = "main"
    /\ checkPc = "display"
    /\ tm_group' = 0
    /\ checkPc' = "idle"
    /\ UNCHANGED <<build, now, ETgroup, ETgroupTimer, ETgroupSet, GROUP, radioGroup,
                   shown, pendingEvents, hTouched, hSinceCommit, hBurstGestures, hBurstCommits, hWrapped, hLastGesture, hCommitted,
                   waitVars, radioVars>>

\* ------------------------------------------------ cancellation flag, waits

Waiters == 1..NumWaiters

\* the durations General.wait is called with (seconds)
WaitSecs == {0, 1}

NotWaiting == [pc |-> "idle", tm |-> 0, wake |-> 0]

\* part_000:79-84   input.onButtonPressed(Button.A, ...)
\* main.ts:63-66
ButtonA ==
    /\ IF build = "part"
         THEN ETwaitAbort' = FALSE /\ UNCHANGED WAITABORT
         ELSE WAITABORT' = FALSE /\ UNCHANGED ETwaitAbort
    /\ hStopSolo' = 0
    /\ hStopSet' = {}
    /\ UNCHANGED <<build, now, groupVars, radioVars, waitSt, hResult, hPaused, hEarly,
                   untilVars>>

\* part_000:86-91   input.onButtonPressed(Button.B, ...)
\* main.ts:68-71
ButtonB ==
    /\ IF build = "part"
         THEN ETwaitAbort' = TRUE /\ UNCHANGED WAITABORT
         ELSE WAITABORT' = TRUE /\ UNCHANGED ETwaitAbort
    /\ hStopSolo' = IF \E w \in Waiters : \A v \in Waiters :
                                              (waitSt[v].pc = "paused") <=> (v = w)
                      THEN CHOOSE w \in Waiters : waitSt[w].pc = "paused"
                      ELSE 0
    /\ hStopSet' = {w \in Waiters : waitSt[w].pc = "paused"}
    /\ hEarly' = 0
    /\ UNCHANGED <<build, now, groupVars, radioVars, waitSt, hResult, hPaused,
                   untilVars>>

\* part_000:528 / main.ts:427   if (ETwaitAbort) / if (WAITABORT)
AbortNeverSeen(flag) == FALSE
AbortSeen(flag) == flag

\* part_000:529   ETwaitAbort = false : the flag after a wait has seen it
FlagKept(flag) == flag
FlagReset(flag) == FALSE

\* part_000:527-533   one iteration of the loop of General.wait, auto-reset revision
WaitIteration(w, tm, first) ==
    IF ~(now < tm)
      THEN /\ waitSt' = [waitSt EXCEPT ![w] = NotWaiting]
           /\ hResult' = [hResult EXCEPT ![w] = "elapsed"]
           /\ hPaused' = [hPaused EXCEPT ![w] = ~first]
           /\ UNCHANGED <<ETwaitAbort, hEarly>>
      ELSE IF AbortSeen(ETwaitAbort)
        THEN /\ ETwaitAbort' = FlagReset(ETwaitAbort)
             /\ waitSt' = [waitSt EXCEPT ![w] = NotWaiting]
             /\ hResult' = [hResult EXCEPT ![w] = "aborted"]
             /\ hPaused' = [hPaused EXCEPT ![w] = ~first]
             /\ hEarly' = Sat(hEarly)
        ELSE /\ waitSt' = [waitSt EXCEPT ![w] = [pc |-> "paused", tm |-> tm,
                                                 wake |-> now + 1]]
             /\ hPaused' = [hPaused EXCEPT ![w] = TRUE]
             /\ UNCHANGED <<ETwaitAbort, hResult, hEarly>>

\* main.ts:426-429   one iteration of the loop of General.wait, sticky revision
MainWaitIteration(w, tm, first) ==
    IF ~(now < tm)
      THEN /\ waitSt' = [waitSt EXCEPT ![w] = NotWaiting]
           /\ hResult' = [hResult EXCEPT ![w] = "elapsed"]
           /\ hPaused' = [hPaused EXCEPT ![w] = ~first]
      ELSE IF AbortSeen(WAITABORT)
        THEN /\ waitSt' = [waitSt EXCEPT ![w] = NotWaiting]
             /\ hResult' = [hResult EXCEPT ![w] = "aborted"]
             /\ hPaused' = [hPaused EXCEPT ![w] = ~first]
        ELSE /\ waitSt' = [waitSt EXCEPT ![w] = [pc |-> "paused", tm |-> tm,
                                                 wake |-> now + 1]]
             /\ hPaused' = [hPaused EXCEPT ![w] = TRUE]
             /\ UNCHANGED hResult

\* part_000:525-534   General.wait(sec) is called and runs to its first pause
WaitCall(w, sec) ==
    /\ build = "part"
    /\ waitSt[w].pc = "idle"
    /\ WaitIteration(w, now + sec * MsPerSec, TRUE)
    /\ hStopSolo' = 0
    /\ hStopSet' = hStopSet \ {w}
    /\ UNCHANGED <<build, now, groupVars, radioVars, WAITABORT, untilVars>>

\* part_000:527-533   basic.pause(1) is over: the next iteration of the loop
WaitResume(w) ==
    /\ build = "part"
    /\ waitSt[w].pc = "paused"
    /\ now >= waitSt[w].wake
    /\ WaitIteration(w, waitSt[w].tm, FALSE)
    /\ hStopSolo' = 0
    /\ hStopSet' = hStopSet \ {w}
    /\ UNCHANGED <<build, now, groupVars, radioVars, WAITABORT, untilVars>>

\* main.ts:424-430   General.wait(sec) is called and runs to its first pause
MainWaitCall(w, sec) ==
    /\ build = "main"
    /\ waitSt[w].pc = "idle"
    /\ MainWaitIteration(w, now + sec * MsPerSec, TRUE)
    /\ hStopSolo' = 0
    /\ hStopSet' = hStopSet \ {w}
    /\ UNCHANGED <<build, now, groupVars, radioVars, ETwaitAbort, WAITABORT, hEarly,
                   untilVars>>

\* main.ts:426-429   basic.pause(1) is over: the next iteration of the loop
MainWaitResume(w) ==
    /\ build = "main"
    /\ waitSt[w].pc = "paused"
    /\ now >= waitSt[w].wake
    /\ MainWaitIteration(w, waitSt[w].tm, FALSE)
    /\ hStopSolo' = 0
    /\ hStopSet' = hStopSet \ {w}
    /\ UNCHANGED <<build, now, groupVars, radioVars, ETwaitAbort, WAITABORT, hEarly,
                   untilVars>>

\* ------------------------------------------------- General.waitUntil, main.ts

NotWaitingUntil == [pc |-> "idle", state |-> FALSE, wake |-> 0]

\* the condition the program waits for changes its value
SetCondition(b) ==
    /\ cond # b
    /\ cond' = b
    /\ UNCHANGED <<build, now, groupVars, radioVars, ETwaitAbort, WAITABORT, waitSt,
                   hResult, hPaused, hStopSolo, hStopSet, hEarly, untilSt, hUntil>>

\* main.ts:416-419   one iteration of the loop of General.waitUntil; state is the
\* value the parameter got when the function was called
MainWaitUntilIteration(w, state) ==
    IF state
      THEN /\ untilSt' = [untilSt EXCEPT ![w] = NotWaitingUntil]
           /\ hUntil' = [hUntil EXCEPT ![w] = "condition"]
      ELSE IF AbortSeen(WAITABORT)
        THEN /\ untilSt' = [untilSt EXCEPT ![w] = NotWaitingUntil]
             /\ hUntil' = [hUntil EXCEPT ![w] = "aborted"]
        ELSE /\ untilSt' = [untilSt EXCEPT ![w] = [pc |-> "paused", state |-> state,
                                                   wake |-> now + 1]]
             /\ hUntil' = [hUntil EXCEPT ![w] = "none"]

\* main.ts:415-420   General.waitUntil(state) is called with the current value of
\* the condition and runs to its first pause
MainWaitUntilCall(w) ==
    /\ build = "main"
    /\ untilSt[w].pc = "idle"
    /\ MainWaitUntilIteration(w, cond)
    /\ UNCHANGED <<build, now, groupVars, radioVars, ETwaitAbort, WAITABORT, waitSt,
                   hResult, hPaused, hStopSolo, hStopSet, hEarly, cond>>

\* main.ts:416-419   basic.pause(1) is over: the next iteration of the loop
MainWaitUntilResume(w) ==
    /\ build = "main"
    /\ untilSt[w].pc = "paused"
    /\ now >= untilSt[w].wake
    /\ MainWaitUntilIteration(w, untilSt[w].state)
    /\ UNCHANGED <<build, now, groupVars, radioVars, ETwaitAbort, WAITABORT, waitSt,
                   hResult, hPaused, hStopSolo, hStopSet, hEarly, cond>>

\* ---------------------------------------------------- strings (JavaScript)

Min(a, b) == IF a < b THEN a ELSE b
Max(a, b) == IF a > b THEN a ELSE b

\* a string is a sequence of characters; the characters the model uses
DigitChars == <<"0", "1", "2", "3", "4", "5", "6", "7", "8", "9">>

Range(f) == {f[i] : i \in DOMAIN f}

\* String.prototype.substr(start, length) as part_000:162-169, 486-487 use it
Substr(str, start, length) ==
    LET n  == Len(str)
        st == IF start < 0 THEN Max(n + start, 0) ELSE Min(start, n)
        l  == Min(Max(length, 0), n - st)
    IN  SubSeq(str, st + 1, st + l)

\* String.prototype.substr(start)
SubstrFrom(str, start) == Substr(str, start, Len(str))

\* part_000:480-482   id.toString(), id a non-negative integer
RECURSIVE NumberToString(_)
NumberToString(n) ==
    IF n < 10 THEN <<DigitChars[n + 1]>>
    ELSE Append(NumberToString(n \div 10), DigitChars[(n % 10) + 1])

DigitValue(c) == CHOOSE d \in 0..9 : DigitChars[d + 1] = c

RECURSIVE DecimalValue(_)
DecimalValue(str) ==
    IF str = <<>> THEN 0
    ELSE 10 * DecimalValue(SubSeq(str, 1, Len(str) - 1)) + DigitValue(str[Len(str)])

\* part_000:163   +idstr : the empty string is 0, a string of decimal digits is
\* its value, "-" and decimal digits is the negated value, any other string of the
\* model's characters is NaN
ToNumber(str) ==
    IF \A i \in DOMAIN str : str[i] \in Range(DigitChars)
      THEN [nan |-> FALSE, val |-> DecimalValue(str)]
    ELSE IF Len(str) > 1 /\ str[1] = "-"
            /\ \A i \in 2..Len(str) : str[i] \in Range(DigitChars)
      THEN [nan |-> FALSE, val |-> 0 - DecimalValue(Tail(str))]
      ELSE [nan |-> TRUE, val |-> 0]

\* ------------------------------------------------ radio messages: the encoder

\* the devices (or fibers) that call sendRadioMessage
Senders == {1, 2}

NotSending == [busy |-> FALSE, msg |-> <<>>, idstr |-> <<>>]

\* part_000:475   if (id <= 0 || id >= 100) return
IdRejectedLowOnly(id) == id <= 0
IdRejected(id) == id <= 0 \/ id >= 100

\* part_000:478-482   two digit id
IdStr(id) == IF id < 10 THEN <<"0">> \o NumberToString(id) ELSE NumberToString(id)

\* part_000:488   if (chunk.length < 17)
TerminatorAlways(chunk) == TRUE
NeedsTerminator(chunk) == Len(chunk) < ChunkSize

\* part_000:486-490   the unit one iteration of the loop gives to radio.sendString
UnitOf(msg, idstr) ==
    LET chunk == Substr(msg, 0, ChunkSize)
    IN  idstr \o (IF NeedsTerminator(chunk) THEN Append(chunk, "~") ELSE chunk)

\* the first-match lookup of the decoding device (part_000:172-174), used here
\* only to note whether the device has a callback for the id
LastIx(ids, idstr) ==
    IF \E i \in DOMAIN ids : ids[i] = idstr
      THEN CHOOSE i \in DOMAIN ids : ids[i] = idstr /\ \A j \in (i + 1)..Len(ids) : ids[j] # idstr
      ELSE Len(ids) + 1
FirstIx(ids, idstr) ==
    IF \E i \in DOMAIN ids : ids[i] = idstr
      THEN CHOOSE i \in DOMAIN ids : ids[i] = idstr /\ \A j \in 1..(i - 1) : ids[j] # idstr
      ELSE Len(ids) + 1

HasCallback(idstr) ==
    LET ix == FirstIx(ETradioIds, idstr)
    IN  ix <= Len(ETradioIds) /\ ETradioHandlers[ix] # "none"

\* part_000:485-492   one iteration of the do-while loop of sendRadioMessage
SendIteration(s, msg, idstr) ==
    LET unit == UnitOf(msg, idstr)
        rest == SubstrFrom(msg, ChunkSize)
    IN  /\ air' = [air EXCEPT ![s] = Append(@, unit)]
        /\ tx' = [tx EXCEPT ![s] = IF Len(rest) > 0
                                     THEN [busy |-> TRUE, msg |-> rest, idstr |-> idstr]
                                     ELSE NotSending]

\* part_000:464-493   sendRadioMessage(msg, id) is called, runs to its first pause
SendRadioMessage(s, msg, id) ==
    /\ build = "part"
    /\ ~tx[s].busy
    /\ hSent' = Append(hSent, [sender |-> s, id |-> id, text |-> msg,
                               ready |-> HasCallback(IdStr(id))])
    /\ IF IdRejected(id)
         THEN /\ hEmitted' = [hEmitted EXCEPT ![s] = <<>>]
              /\ UNCHANGED <<tx, air>>
         ELSE /\ SendIteration(s, msg, IdStr(id))
              /\ hEmitted' = [hEmitted EXCEPT ![s] = <<UnitOf(msg, IdStr(id))>>]
    /\ UNCHANGED <<build, now, groupVars, waitVars, ETradioIds, ETradioMsgs,
                   ETradioHandlers, ETradioHandler, crashed, calls, hUnit, hPending>>

\* part_000:485-492   basic.pause(1) is over: the next iteration of the loop
SendResume(s) ==
    /\ build = "part"
    /\ tx[s].busy
    /\ SendIteration(s, tx[s].msg, tx[s].idstr)
    /\ hEmitted' = [hEmitted EXCEPT ![s] = Append(@, UnitOf(tx[s].msg, tx[s].idstr))]
    /\ UNCHANGED <<build, now, groupVars, waitVars, ETradioIds, ETradioMsgs,
                   ETradioHandlers, ETradioHandler, crashed, calls, hSent, hUnit,
                   hPending>>

\* ----------------------------------- radio messages: registry and the decoder

\* the callbacks a program registers, by name
Handlers == {"h1", "h2"}
GenericHandlers == {"generic"}

\* part_000:407-412   the id is made two characters long
NormalizeId(id) ==
    IF Len(id) = 0 THEN <<"E", "T">>
    ELSE IF Len(id) = 1 THEN Append(id, "#")
    ELSE IF Len(id) = 2 THEN id
    ELSE Substr(id, 0, 2)

\* observation: the id, the terminator and the payload of a unit as the protocol
\* defines them (chunk format, part_000:155-158)
UnitId(unit) == SubSeq(unit, 1, Min(2, Len(unit)))
UnitFinal(unit) == Len(unit) > 0 /\ unit[Len(unit)] = "~"
UnitPayload(unit) == SubSeq(unit, 3, IF UnitFinal(unit) THEN Len(unit) - 1 ELSE Len(unit))
Pend(idstr) == IF idstr \in DOMAIN hPending THEN hPending[idstr] ELSE <<>>

\* part_000:404-417   General.registerMessageHandler(id, hnd), called by a program
RegisterMessageHandler(id, hnd) ==
    /\ build = "part"
    /\ ~crashed
    /\ ETradioHandlers' = Append(ETradioHandlers, hnd)
    /\ ETradioIds' = Append(ETradioIds, NormalizeId(id))
    /\ ETradioMsgs' = Append(ETradioMsgs, <<>>)
    /\ hPending' = IF NormalizeId(id) \in Range(ETradioIds) THEN hPending
                   ELSE (NormalizeId(id) :> <<>>) @@ hPending
    /\ UNCHANGED <<build, now, groupVars, waitVars, ETradioHandler, crashed, tx, air,
                   calls, hSent, hEmitted, hUnit>>

\* part_000:456-458   General.onRadioMessage(code)
OnRadioMessage(code) ==
    /\ build = "part"
    /\ ~crashed
    /\ ETradioHandler' = code
    /\ UNCHANGED <<build, now, groupVars, waitVars, ETradioIds, ETradioMsgs,
                   ETradioHandlers, crashed, tx, air, calls, hSent, hEmitted, hUnit,
                   hPending>>

\* part_000:164-169   the chunk of a unit
ChunkKeepTerminator(msg) == Substr(msg, 2, Len(msg) - 2)
ChunkOf(msg) ==
    IF Substr(msg, Len(msg) - 1, Len(msg)) = <<"~">>
      THEN Substr(msg, 2, Len(msg) - 3)
      ELSE Substr(msg, 2, Len(msg) - 2)

\* part_000:150-187   radio.onReceivedString(function (msg) ...)
OnReceivedString(msg) ==
    LET msgend == Substr(msg, Len(msg) - 1, Len(msg)) = <<"~">>
        chunk  == ChunkOf(msg)
        idstr  == Substr(msg, 0, 2)
        id     == ToNumber(idstr)
        ix     == FirstIx(ETradioIds, idstr)
        found  == ix <= Len(ETradioIds)
        ids1   == IF found THEN ETradioIds ELSE Append(ETradioIds, NormalizeId(idstr))
        hnds1  == IF found THEN ETradioHandlers ELSE Append(ETradioHandlers, ETradioHandler)
        msgs1  == IF found THEN ETradioMsgs ELSE Append(ETradioMsgs, <<>>)
        msgs2  == [msgs1 EXCEPT ![ix] = @ \o chunk]
        before == IF UnitId(msg) \in Range(ETradioIds) THEN Pend(UnitId(msg)) ELSE <<>>
    IN  /\ build = "part"
        /\ ~crashed
        /\ hUnit' = [n |-> hUnit.n + 1, unit |-> msg]
        /\ hPending' = (UnitId(msg) :> (IF UnitFinal(msg) THEN <<>>
                                        ELSE before \o UnitPayload(msg))) @@ hPending
        /\ IF ~found /\ ~id.nan /\ (id.val <= 0 \/ id.val >= 100)
             THEN UNCHANGED <<ETradioIds, ETradioMsgs, ETradioHandlers, crashed, calls>>
             ELSE /\ ETradioIds' = ids1
                  /\ ETradioHandlers' = hnds1
                  /\ IF ~msgend
                       THEN /\ ETradioMsgs' = msgs2
                            /\ UNCHANGED <<crashed, calls>>
                       ELSE IF hnds1[ix] = "none"
                         THEN /\ ETradioMsgs' = msgs2
                              /\ crashed' = TRUE
                              /\ UNCHANGED calls
                         ELSE /\ calls' = Append(calls, [hnd |-> hnds1[ix],
                                                         text |-> msgs2[ix]])
                              /\ ETradioMsgs' = [msgs2 EXCEPT ![ix] = <<>>]
                              /\ UNCHANGED crashed
        /\ UNCHANGED <<build, now, groupVars, waitVars, ETradioHandler, tx, hSent,
                       hEmitted>>

\* the oldest unit of sender s in flight reaches the decoding device
Deliver(s) ==
    /\ air[s] # <<>>
    /\ OnReceivedString(Head(air[s]))
    /\ air' = [air EXCEPT ![s] = Tail(@)]

\* a string from any device of the radio group reaches the decoding device
\* (part_000:150, the runtime calls the handler with whatever was received)
RadioReceived(msg) ==
    /\ hUnit.n < MaxUnits
    /\ OnReceivedString(msg)
    /\ UNCHANGED air

\* ------------------------------------------------------------ specification

\* the state after the top-level statements of general.ts have run
\* (part_000:107-109, 189-190 ; main.ts:96, 103, 136)
Init ==
    /\ build \in Builds
    /\ now = 0
    /\ ETgroup = 1
    /\ ETgroupTimer = 0
    /\ ETgroupSet = FALSE
    /\ GROUP = 1
    /\ tm_group = 0
    /\ radioGroup = 1
    /\ shown = 1
    /\ pendingEvents = 0
    /\ checkPc = "idle"
    /\ hTouched = FALSE
    /\ hSinceCommit = 0
    /\ hBurstGestures = 0
    /\ hBurstCommits = 0
    /\ hWrapped = FALSE
    /\ hLastGesture = 0
    /\ hCommitted = 1
    /\ ETwaitAbort = FALSE
    /\ WAITABORT = FALSE
    /\ waitSt = [w \in Waiters |-> NotWaiting]
    /\ hResult = [w \in Waiters |-> "none"]
    /\ hPaused = [w \in Waiters |-> FALSE]
    /\ hStopSolo = 0
    /\ hStopSet = {}
    /\ hEarly = 0
    /\ cond = FALSE
    /\ untilSt = [w \in Waiters |-> NotWaitingUntil]
    /\ hUntil = [w \in Waiters |-> "none"]
    /\ ETradioIds = <<>>
    /\ ETradioMsgs = <<>>
    /\ ETradioHandlers = <<>>
    /\ ETradioHandler = "none"
    /\ crashed = FALSE
    /\ tx = [s \in Senders |-> NotSending]
    /\ air = [s \in Senders |-> <<>>]
    /\ calls = <<>>
    /\ hSent = <<>>
    /\ hEmitted = [s \in Senders |-> <<>>]
    /\ hUnit = [n |-> 0, unit |-> <<>>]
    /\ hPending = <<>>

NextGroupCtl ==
    \/ \E d \in TickSteps : Tick(d)
    \/ LogoPressed
    \/ CheckStart
    \/ CheckDisplay
    \/ CheckFinish
    \/ MainLogoPressed
    \/ MainCheckStart
    \/ MainCheckDisplay
    \/ MainCheckFinish

SpecGroup == Init /\ [][NextGroupCtl]_vars

NextWait ==
    \/ \E d \in TickSteps : now + d <= MaxWaitTime /\ Tick(d)
    \/ ButtonA
    \/ ButtonB
    \/ \E w \in Waiters, sec \in WaitSecs : WaitCall(w, sec)
    \/ \E w \in Waiters : WaitResume(w)
    \/ \E w \in Waiters, sec \in WaitSecs : MainWaitCall(w, sec)
    \/ \E w \in Waiters : MainWaitResume(w)

SpecWait == Init /\ [][NextWait]_vars

\* waitUntil specification: the condition changes, the buttons are pressed
NextUntil ==
    \/ \E d \in TickSteps : now + d <= MaxWaitTime /\ Tick(d)
    \/ ButtonA
    \/ ButtonB
    \/ \E b \in BOOLEAN : SetCondition(b)
    \/ \E w \in Waiters : MainWaitUntilCall(w)
    \/ \E w \in Waiters : MainWaitUntilResume(w)

SpecUntil == Init /\ [][NextUntil]_vars

\* ---- the inputs of the radio specifications

Fill(c, n) == [i \in 1..n |-> c]

\* n characters "a", the p-th one (if p > 0) replaced by c
TextWith(n, p, c) == [i \in 1..n |-> IF i = p THEN c ELSE "a"]

\* encoder specification: every length up to MaxLen, a "~" or a "b" anywhere
EncTexts == {TextWith(n, p, c) : n \in 0..MaxLen, p \in 0..MaxLen, c \in {"~", "b"}}
EncIds == {0, 7, 42, 100}

\* one sendRadioMessage call, unit by unit
NextEncoder ==
    \/ \E msg \in EncTexts, id \in EncIds : hSent = <<>> /\ SendRadioMessage(1, msg, id)
    \/ SendResume(1)

SpecEncoder == Init /\ [][NextEncoder]_vars

\* radio specification: each sender has its own letter
SenderChar == <<"a", "b">>
RadioLens == {17, 18}
RadioTexts(s) == {Fill(SenderChar[s], n) : n \in RadioLens}
RadioIds == {7, 42}
\* the registerMessageHandler calls of the receiving program: id, handler
Registrations == {<<<<"0", "7">>, "h1">>, <<<<"4", "2">>, "h2">>}

NextRadio ==
    \/ \E r \in Registrations :
          hSent = <<>> /\ Len(ETradioIds) < MaxChannels /\ RegisterMessageHandler(r[1], r[2])
    \/ \E code \in GenericHandlers : hSent = <<>> /\ OnRadioMessage(code)
    \/ \E s \in Senders : \E msg \in RadioTexts(s), id \in RadioIds :
          Len(hSent) < MaxSends /\ SendRadioMessage(s, msg, id)
    \/ \E s \in Senders : SendResume(s)
    \/ \E s \in Senders : Deliver(s)

SpecRadio == Init /\ [][NextRadio]_vars

\* decoder specification: the receiving program registers callbacks at any time,
\* and any string may arrive, protocol unit or not
DecRegistrations == {<<<<"0", "7">>, "h1">>, <<<<"0", "7", "x">>, "h2">>}
DecCallbacks == {"generic", "generic2"}
DecUnits ==
    { <<"0", "7", "a">>, <<"0", "7", "b", "~">>,
      <<"4", "2", "c">>, <<"4", "2", "c", "~">>,
      <<"0", "0", "a", "~">>, <<"-", "1", "a", "~">>,
      <<"x", "y", "a", "~">>, <<"7">>, <<"~">> }

NextDecoder ==
    \/ \E r \in DecRegistrations :
          Len(ETradioIds) < MaxChannels /\ RegisterMessageHandler(r[1], r[2])
    \/ \E code \in DecCallbacks : code # ETradioHandler /\ OnRadioMessage(code)
    \/ \E msg \in DecUnits : RadioReceived(msg)

SpecDecoder == Init /\ [][NextDecoder]_vars

\* channel specification: one program sends a sequence of messages on the id 7
\* to a device that registers a callback for it before the traffic starts
ChanTexts ==
    { Fill("a", 0), Fill("a", 2), Fill("b", 18), Fill("c", 35), Fill("a", 17),
      TextWith(18, 17, "~") }

NextChannel ==
    \/ hSent = <<>> /\ ETradioIds = <<>> /\ RegisterMessageHandler(<<"0", "7">>, "h1")
    \/ \E msg \in ChanTexts : Len(hSent) < MaxSends /\ SendRadioMessage(1, msg, 7)
    \/ SendResume(1)
    \/ Deliver(1)

SpecChannel == Init /\ [][NextChannel]_vars

Next == NextGroupCtl \/ NextWait \/ NextEncoder \/ NextRadio \/ NextDecoder
        \/ NextChannel \/ NextUntil

Spec == Init /\ [][Next]_vars

\* ------------------------------------------------------------------ claims

\* ---- observation of the radio runs

\* every sendRadioMessage call has returned and all its units have been received
AllDelivered == \A s \in Senders : ~tx[s].busy /\ air[s] = <<>>

\* the callback the decoding device holds for the id of a send
CallbackOf(id) == ETradioHandlers[FirstIx(ETradioIds, IdStr(id))]

\* the one sendRadioMessage call of the encoder specification has returned
EncoderDone == hSent # <<>> /\ ~IdRejected(hSent[1].id) /\ ~tx[1].busy

\* C1: round trip.  One sendRadioMessage(s, i) to a device that has a callback for
\* the id, all units received in emission order: exactly one callback invocation,
\* and its argument is s
C1_RoundTrip ==
    (Len(hSent) = 1 /\ hSent[1].ready /\ AllDelivered /\ ~crashed) =>
        calls = <<[hnd |-> CallbackOf(hSent[1].id), text |-> hSent[1].text]>>

\* C2: a returned sendRadioMessage call with a valid id has emitted at least one
\* unit, its last unit ends with "~", and for the empty text the only unit is the
\* two digit id followed by "~"
C2_LastUnitTerminated ==
    EncoderDone =>
        LET units == hEmitted[1]
        IN  /\ Len(units) >= 1
            /\ units[Len(units)][Len(units[Len(units)])] = "~"
            /\ hSent[1].text = <<>> => units = <<IdStr(hSent[1].id) \o <<"~">>>>

\* C3: a returned sendRadioMessage call with a valid id and a text of n characters
\* has emitted ceil(max(n,1)/17) units, all but the last of 19 characters, the last
\* of 2 + (17 if n mod 17 = 0 else n mod 17) + 1 characters, or 3 if n = 0
C3_UnitCountAndLengths ==
    EncoderDone =>
        LET units == hEmitted[1]
            n     == Len(hSent[1].text)
        IN  /\ Len(units) = ((IF n > 1 THEN n ELSE 1) + 16) \div 17
            /\ \A i \in 1..(Len(units) - 1) : Len(units[i]) = 19
            /\ Len(units[Len(units)]) =
                  (IF n = 0 THEN 3 ELSE 2 + (IF n % 17 = 0 THEN 17 ELSE n % 17) + 1)

\* C4: every unit given to radio.sendString is at most 19 characters long
C4_UnitFitsTransport ==
    \A s \in Senders :
        /\ \A i \in DOMAIN hEmitted[s] : Len(hEmitted[s][i]) <= 19
        /\ \A i \in DOMAIN air[s] : Len(air[s][i]) <= 19

\* C4 witness: a text of 33 characters has been sent as two units of 19 characters,
\* the second one holding 16 characters of text and the terminator
C4_Witness ==
    /\ EncoderDone
    /\ Len(hSent[1].text) = 33
    /\ Len(hEmitted[1]) = 2
    /\ Len(hEmitted[1][1]) = 19
    /\ Len(hEmitted[1][2]) = 19
    /\ UnitFinal(hEmitted[1][2])

\* C5: cross-channel isolation.  Two sendRadioMessage calls with different ids to a
\* device that has a callback for both, all units received (in any interleaving that
\* keeps each call's order): exactly two callback invocations, one per id, each with
\* the text sent on that id
C5_TwoIdsTwoDeliveries ==
    (/\ Len(hSent) = 2
     /\ hSent[1].id # hSent[2].id
     /\ hSent[1].ready /\ hSent[2].ready
     /\ AllDelivered /\ ~crashed) =>
        /\ Len(calls) = 2
        /\ \A k \in 1..2 : \E c \in 1..2 :
              calls[c] = [hnd |-> CallbackOf(hSent[k].id), text |-> hSent[k].text]

\* C6: the decoder invokes a callback only when it receives a unit that ends with
\* the terminator, for the channel of the unit's id; the argument is the payloads
\* received for that id since its previous delivery (or its registration), in
\* arrival order; the accumulator is empty afterwards; every other unit is kept in
\* the accumulator, nothing is discarded; no other step invokes a callback
C6_DeliveryOnTerminatorOnly ==
    /\ [](~crashed =>
            \A i \in DOMAIN ETradioIds :
                FirstIx(ETradioIds, ETradioIds[i]) = i => ETradioMsgs[i] = Pend(ETradioIds[i]))
    /\ [][IF hUnit' # hUnit /\ ~crashed'
            THEN LET unit   == hUnit'.unit
                     ix     == FirstIx(ETradioIds', UnitId(unit))
                     before == IF UnitId(unit) \in Range(ETradioIds)
                                 THEN Pend(UnitId(unit)) ELSE <<>>
                 IN  IF UnitFinal(unit) /\ ix <= Len(ETradioIds')
                       THEN /\ calls' = Append(calls, [hnd |-> ETradioHandlers'[ix],
                                                      text |-> before \o UnitPayload(unit)])
                            /\ ETradioMsgs'[ix] = <<>>
                       ELSE calls' = calls
            ELSE calls' = calls]_vars

\* C6 witness: two sends on one id (neither text a multiple of 17 long) from two
\* senders were received interleaved, and a callback got a text that is neither
\* of the two texts
C6_Witness ==
    /\ Len(hSent) = 2
    /\ hSent[1].id = hSent[2].id
    /\ hSent[1].sender # hSent[2].sender
    /\ Len(hSent[1].text) % 17 # 0
    /\ Len(hSent[2].text) % 17 # 0
    /\ AllDelivered
    /\ ~crashed
    /\ \E c \in DOMAIN calls : calls[c].text \notin {hSent[1].text, hSent[2].text}

C9_GroupRange ==
    /\ [](ETgroup \in 1..9 /\ GROUP \in 1..9 /\ radioGroup \in 1..9)
    /\ [][(ETgroup = 9 /\ ETgroup' # 9 => ETgroup' = 1)
          /\ (GROUP = 9 /\ GROUP' # 9 => GROUP' = 1)]_vars

\* C9 witness: a gesture has taken the group from 9 to 1
C9_Witness ==
    /\ build = "part"
    /\ hWrapped
    /\ ETgroup = 1

\* C10: when the stop gesture sets the cancellation flag while one General.wait
\* call is in its polling loop (no start gesture and no other wait in between),
\* the next iteration of that wait's loop returns, and it returns by the abort
\* branch whenever its deadline has not been reached (both revisions)
C10_StopEndsWaitAtNextIteration ==
    [][\A w \in Waiters :
          (hStopSolo = w /\ waitSt'[w] # waitSt[w]) =>
              /\ waitSt'[w].pc = "idle"
              /\ now < waitSt[w].tm => hResult'[w] = "aborted"]_vars

\* C10 witness: the only wait ever called has paused in its loop and was then ended
\* by the flag, before its deadline
C10_Witness ==
    /\ build = "part"
    /\ \E w \in Waiters :
          /\ hResult[w] = "aborted"
          /\ hPaused[w]
          /\ waitSt[w].pc = "idle"
          /\ \A v \in Waiters \ {w} : hResult[v] = "none" /\ waitSt[v].pc = "idle"

\* C11: a sendRadioMessage call with an id outside 1..99 (id <= 0 or id >= 100)
\* transmits nothing, raises no error and changes no state of the program: the call
\* leaves the sender, the units in flight and the receiving side as they were, and
\* no unit is ever emitted for it
C11_RejectedIdSendsNothing ==
    /\ [](\A k \in DOMAIN hSent :
              (hSent[k].id <= 0 \/ hSent[k].id >= 100) =>
                  /\ hEmitted[hSent[k].sender] = <<>>
                  /\ air[hSent[k].sender] = <<>>
                  /\ ~tx[hSent[k].sender].busy)
    /\ [][(hSent' # hSent /\ (hSent'[Len(hSent')].id <= 0
                              \/ hSent'[Len(hSent')].id >= 100)) =>
              UNCHANGED <<tx, air, crashed, calls, ETradioIds, ETradioMsgs,
                          ETradioHandlers, ETradioHandler, groupVars, waitVars>>]_vars

\* C11 witness: sendRadioMessage was called with a non-empty text and the id 100,
\* and nothing is in flight
C11_Witness ==
    /\ hSent # <<>>
    /\ hSent[1].id = 100
    /\ Len(hSent[1].text) = 20
    /\ air[1] = <<>>
    /\ ~tx[1].busy

\* C12: a received unit whose leading two characters match no registered id is
\* auto-registered only if they parse as a number strictly between 0 and 100; for
\* every other unregistered id (not a number, 0 or less, 100 or more) the unit is
\* dropped: registry, accumulators and callback invocations stay as they were
C12_UnregisteredIdDropped ==
    [][hUnit' # hUnit =>
          LET idstr == Substr(hUnit'.unit, 0, 2)
              id    == ToNumber(idstr)
          IN  (idstr \notin Range(ETradioIds)
               /\ ~(~id.nan /\ id.val > 0 /\ id.val < 100)) =>
                  UNCHANGED <<ETradioIds, ETradioMsgs, ETradioHandlers, calls>>]_vars

\* C13: in every reachable state of the registry, after any sequence of
\* registerMessageHandler calls and received units (auto-registration included),
\* no two entries have the same id
C13_OneEntryPerId ==
    \A i, j \in DOMAIN ETradioIds : ETradioIds[i] = ETradioIds[j] => i = j

\* C14: no received unit makes the decoder fail: whatever the unit and the
\* registry, the receive handler never invokes an absent callback
C14_DecoderNeverFails == ~crashed

\* ---- observation of the registry

\* the entries the decoder added itself: the program registers only Handlers
AutoRegistered(hnd) == hnd \notin Handlers

\* the entry of an id that was registered first
EarliestEntry(ids, id) ==
    CHOOSE i \in DOMAIN ids : ids[i] = id /\ \A k \in 1..(i - 1) : ids[k] # id

\* C19: a message completed on an auto-registered id is delivered to the callback
\* installed with onRadioMessage, whether onRadioMessage was called before or
\* after the first unit of the id, and whether or not it was called again since
C19_AutoRegisteredUsesFallback ==
    [][(/\ hUnit' # hUnit
        /\ UnitFinal(hUnit'.unit)
        /\ ETradioHandler # "none"
        /\ Substr(hUnit'.unit, 0, 2) \in Range(ETradioIds')
        /\ AutoRegistered(ETradioHandlers'[EarliestEntry(ETradioIds',
                                                        Substr(hUnit'.unit, 0, 2))])) =>
           /\ ~crashed'
           /\ Len(calls') = Len(calls) + 1
           /\ calls'[Len(calls')].hnd = ETradioHandler]_vars

\* C20: registerMessageHandler called twice with ids that normalize to the same
\* two characters creates two entries and raises no error; from then on every unit
\* of that id is accumulated in the entry registered first and every completed
\* message is delivered to that entry's callback; the accumulator of a later entry
\* stays empty and its callback is never invoked
C20_FirstRegistrationWins ==
    /\ [](\A j \in DOMAIN ETradioIds :
              (/\ ~AutoRegistered(ETradioHandlers[j])
               /\ \E i \in 1..(j - 1) : ETradioIds[i] = ETradioIds[j]) =>
                  /\ ETradioMsgs[j] = <<>>
                  /\ (\A k \in DOMAIN ETradioIds :
                          ETradioHandlers[k] = ETradioHandlers[j] =>
                              \E i \in 1..(k - 1) : ETradioIds[i] = ETradioIds[k]) =>
                        \A c \in DOMAIN calls : calls[c].hnd # ETradioHandlers[j])
    /\ [][\A r \in DecRegistrations :
              (RegisterMessageHandler(r[1], r[2]) /\ NormalizeId(r[1]) \in Range(ETradioIds)) =>
                  /\ Len(ETradioIds') = Len(ETradioIds) + 1
                  /\ ETradioIds'[Len(ETradioIds')] = NormalizeId(r[1])
                  /\ ~crashed']_vars
    /\ [][(hUnit' # hUnit /\ Substr(hUnit'.unit, 0, 2) \in Range(ETradioIds)) =>
              LET unit  == hUnit'.unit
                  first == EarliestEntry(ETradioIds, Substr(unit, 0, 2))
              IN  /\ \A k \in DOMAIN ETradioMsgs : k # first => ETradioMsgs'[k] = ETradioMsgs[k]
                  /\ IF UnitFinal(unit)
                       THEN ~crashed' =>
                               /\ ETradioMsgs'[first] = <<>>
                               /\ calls' = Append(calls,
                                     [hnd |-> ETradioHandlers[first],
                                      text |-> ETradioMsgs[first] \o UnitPayload(unit)])
                       ELSE /\ ETradioMsgs'[first] = ETradioMsgs[first] \o UnitPayload(unit)
                            /\ calls' = calls]_vars

\* C20 witness: "07" was registered with h1 and then "07x" with h2, the units
\* "07a" and "07b~" were received, h1 got "ab" and both accumulators are empty
C20_Witness ==
    /\ ETradioIds = << <<"0", "7">>, <<"0", "7">> >>
    /\ ETradioHandlers = <<"h1", "h2">>
    /\ calls = <<[hnd |-> "h1", text |-> <<"a", "b">>]>>
    /\ ETradioMsgs = << <<>>, <<>> >>
    /\ hUnit.n = 2

C16_RadioGroupOnlyAtCommit ==
    [][(build = "part" /\ radioGroup' # radioGroup) => CheckDisplay]_vars

\* C17: when a stop gesture occurs while one or more General.wait calls are in
\* progress, every one of those waits returns early: the next iteration of each of
\* them (no start gesture in between) returns by the abort branch unless its
\* deadline has been reached by then
C17_EveryWaitCancelled ==
    [][\A w \in hStopSet :
          (waitSt'[w] # waitSt[w] /\ now < waitSt[w].tm) =>
              /\ waitSt'[w].pc = "idle"
              /\ hResult'[w] = "aborted"]_vars

\* C18: auto-reset revision (part_000): a wait that sees the flag set resets it
\* before it returns, so after one stop gesture one wait returns early and no
\* second one, the flag is false afterwards, and a wait that polls with the flag
\* false goes on to its deadline.  Sticky revision (main.ts): no wait writes the
\* flag, it stays true from a stop gesture until the next start gesture
C18_AutoResetAndSticky ==
    /\ [](build = "part" => (hEarly <= 1 /\ (hEarly = 1 => ~ETwaitAbort)))
    /\ [][\A w \in Waiters :
              (/\ build = "part"
               /\ waitSt[w].pc = "paused"
               /\ waitSt'[w] # waitSt[w]
               /\ now < waitSt[w].tm) =>
                  /\ ~ETwaitAbort'
                  /\ IF ETwaitAbort
                       THEN waitSt'[w].pc = "idle" /\ hResult'[w] = "aborted"
                       ELSE waitSt'[w].pc = "paused" /\ hResult'[w] = hResult[w]]_vars
    /\ [][\A w \in Waiters :
              (build = "part" /\ waitSt[w].pc = "idle" /\ waitSt'[w].pc = "paused") =>
                  (~ETwaitAbort /\ ~ETwaitAbort')]_vars
    /\ [][(build = "main" /\ \E w \in Waiters : waitSt'[w] # waitSt[w]) =>
              WAITABORT' = WAITABORT]_vars
    /\ [][(build = "main" /\ WAITABORT /\ ~WAITABORT') => ButtonA]_vars

\* C18 witness: auto-reset revision, two waits were in progress at the stop
\* gesture; the wait of fiber 1 has returned early and reset the flag, the wait
\* of fiber 2 has not polled yet
C18_Witness ==
    /\ build = "part"
    /\ hStopSet = {2}
    /\ hEarly = 1
    /\ hResult[1] = "aborted"
    /\ hPaused[1]
    /\ waitSt[1].pc = "idle"
    /\ waitSt[2].pc = "paused"
    /\ ~ETwaitAbort

\* C21: no group change is left uncommitted.  Whenever the controller is Idle
\* (ETgroupTimer = 0) and no deferred check is queued or running, the group equals
\* the group the most recent displayGroup() call has shown; a gesture handled
\* while the check is inside displayGroup is still followed by a commit
C21_NoUncommittedGroup ==
    (build = "part" /\ ETgroupTimer = 0 /\ checkPc = "idle" /\ pendingEvents = 0) =>
        ETgroup = hCommitted

PlainText(text) == "~" \notin Range(text) /\ (Len(text) = 0 \/ Len(text) % 17 # 0)

\* C23: a sequence of sendRadioMessage calls on one id, every text without "~" and
\* empty or of a length that is not a multiple of 17, all units received in
\* emission order by a device that has a callback for the id: one callback
\* invocation per send, in send order, each with the text sent, and the
\* accumulator of the channel is empty afterwards
C23_MessageSequence ==
    (/\ hSent # <<>>
     /\ \A k \in DOMAIN hSent :
           hSent[k].ready /\ hSent[k].id = hSent[1].id /\ PlainText(hSent[k].text)
     /\ AllDelivered
     /\ ~crashed) =>
        /\ calls = [k \in DOMAIN hSent |->
                       [hnd |-> CallbackOf(hSent[1].id), text |-> hSent[k].text]]
        /\ ETradioMsgs[FirstIx(ETradioIds, IdStr(hSent[1].id))] = <<>>

\* C23 witness: 18 characters "b" and then "aa" were sent on the id 7, all units
\* were received, and the callback has run twice
C23_Witness ==
    /\ Len(hSent) = 2
    /\ hSent[1].ready
    /\ hSent[1].text = Fill("b", 18)
    /\ hSent[2].text = Fill("a", 2)
    /\ AllDelivered
    /\ Len(calls) = 2

\* C24: General.waitUntil (main.ts) returns once its condition is true or the
\* cancellation flag is set: a call made while the condition is true returns at
\* once, and every iteration of the loop that runs while the condition is true or
\* the flag is set ends the call
C24_WaitUntilReturns ==
    [][\A w \in Waiters :
          ((MainWaitUntilCall(w) \/ MainWaitUntilResume(w)) /\ (cond \/ WAITABORT)) =>
              /\ untilSt'[w].pc = "idle"
              /\ hUntil'[w] \in {"condition", "aborted"}]_vars

====
